---- MODULE Spec2Model ----
(***************************************************************************)
(* Voice assistant for a desktop media player: text normalisation, fuzzy   *)
(* playlist matching, intent parsing (src/intent_parser.py, duplicated in  *)
(* assistant.py) and the two command dispatchers (the automation loop of   *)
(* assistant.py and handle_intent_api of assistant_api.py).                *)
(*                                                                         *)
(* A Python str is a sequence of one-character strings; None is the        *)
(* one-element sequence NoneVal, which no str equals.                      *)
(***************************************************************************)
EXTENDS Integers, Sequences, FiniteSets, TLC

VARIABLES
    text,       \* the str handed to the function under check / the transcript
    playlists,  \* CFG["playlists"]: <<label, target>> pairs in dict order
    scorer,     \* fuzz.token_set_ratio on the pairs the run can ask about
    ret,        \* the value the function under check returned
    pc,         \* position of the (single) consumer thread
    backend,    \* "automation" (assistant.py) or "api" (assistant_api.py)
    intent,     \* (typ, arg) of the utterance being dispatched
    calls,      \* backend operations called for the current utterance, in order
    notices,    \* lines printed for the current utterance, in order
    utterances, \* utterances yielded by the recorder so far
    failures,   \* backend operations that failed for the current utterance
    errors,     \* times the loop's "except Exception" ran so far
    attempts,   \* model.transcribe calls made for the current utterance
    stream,     \* rec.stream is started
    playing,    \* is_playing of the remote player
    base,       \* is_playing when it was last set other than by play_pause
    toggles,    \* play_pause calls that succeeded since
    key,        \* the push-to-talk key is held down
    presses,    \* key presses so far
    recording,  \* PTTRecorder.recording
    q,          \* PTTRecorder.q, oldest chunk first
    produced,   \* chunks the audio callback has enqueued so far
    chunks,     \* record_blocking's local list
    woke,       \* the press that ended record_blocking's last keyboard.wait
    audio       \* what record_blocking last yielded: <<press, chunks>>

loopvars == <<failures, errors, attempts, stream, playing, base, toggles>>

recvars == <<key, presses, recording, q, produced, chunks, woke, audio>>

vars == <<text, playlists, scorer, ret, pc, backend, intent, calls, notices, utterances,
          loopvars, recvars>>

----------------------------------------------------------------------------
(* Bounds of the model.                                                    *)

MaxLen == 3         \* characters of a raw string handed to normalize
MaxWords == 4       \* words of a transcript handed to parse_intent
MaxLabels == 2      \* playlist labels handed to best_match
MaxUtterances == 2  \* utterances the capture loop handles in one run

----------------------------------------------------------------------------
(* Python values.                                                          *)

NoneVal == <<"<None>">>

Falsy(v) == v = NoneVal \/ v = <<>>

LowerLetters == <<"a", "b", "c", "d", "e", "f", "g", "h", "i", "j", "k", "l", "m",
                  "n", "o", "p", "q", "r", "s", "t", "u", "v", "w", "x", "y", "z">>

UpperLetters == <<"A", "B", "C", "D", "E", "F", "G", "H", "I", "J", "K", "L", "M",
                  "N", "O", "P", "Q", "R", "S", "T", "U", "V", "W", "X", "Y", "Z">>

Digits == {"0", "1", "2", "3", "4", "5", "6", "7", "8", "9"}

Range(s) == {s[i] : i \in 1..Len(s)}

\* str.lower() on one character: A-Z fold to a-z, every other character of
\* the model's alphabet is its own lower case.
UpperSet == Range(UpperLetters)

LowerChar(c) ==
    IF c \in UpperSet
    THEN LowerLetters[CHOOSE i \in 1..Len(UpperLetters) : UpperLetters[i] = c]
    ELSE c

lower(s) == [i \in 1..Len(s) |-> LowerChar(s[i])]

\* The complement of the character class [^a-z0-9 ].
KeptChars == Range(LowerLetters) \cup Digits \cup {" "}

Kept(c) == c \in KeptChars

RECURSIVE DropRun(_)
DropRun(s) == IF s # <<>> /\ ~Kept(Head(s)) THEN DropRun(Tail(s)) ELSE s

\* re.sub(r"[^a-z0-9 ]+", " ", s): every maximal run of characters outside
\* the class becomes one space.
RECURSIVE re_sub(_)
re_sub(s) ==
    IF s = <<>> THEN <<>>
    ELSE IF Kept(Head(s)) THEN <<Head(s)>> \o re_sub(Tail(s))
    ELSE <<" ">> \o re_sub(DropRun(Tail(s)))

\* Whitespace as str.strip() sees it.
IsSpace(c) == c \in {" ", "\t", "\n"}

RECURSIVE lstrip(_)
lstrip(s) == IF s # <<>> /\ IsSpace(Head(s)) THEN lstrip(Tail(s)) ELSE s

RECURSIVE rstrip(_)
rstrip(s) ==
    IF s # <<>> /\ IsSpace(s[Len(s)]) THEN rstrip(SubSeq(s, 1, Len(s) - 1)) ELSE s

strip(s) == rstrip(lstrip(s))

normalize_nostrip(s) == re_sub(lower(s))

normalize(s) == strip(re_sub(lower(s)))

----------------------------------------------------------------------------
(* Fuzzy matcher: best_match.                                              *)

cutoff == 78

\* The values a similarity score is drawn from: both sides of the cutoff
\* and the ends of the scale.
ScoreVals == {0, cutoff - 1, cutoff, 100}

\* fuzz.token_set_ratio(query, choice): the library's scorer, any function
\* of the two strings.
Score(query, choice) == scorer[<<query, choice>>]

\* process.extractOne(query, choices, scorer=...): the first choice with the
\* highest score, with that score; None when there is no choice.
extractOne(query, choices) ==
    IF choices = <<>> THEN NoneVal
    ELSE LET best == CHOOSE i \in 1..Len(choices) :
                        \A j \in 1..Len(choices) :
                            /\ Score(query, choices[j]) <= Score(query, choices[i])
                            /\ j < i => Score(query, choices[j]) < Score(query, choices[i])
         IN  <<choices[best], Score(query, choices[best])>>

\* Fault: the position is looked up from the end of the list.
rindex(s, v) == CHOOSE i \in 1..Len(s) : s[i] = v /\ \A j \in (i + 1)..Len(s) : s[j] # v

\* list.index(v): the first position holding v.
index(s, v) == CHOOSE i \in 1..Len(s) : s[i] = v /\ \A j \in 1..(i - 1) : s[j] # v

\* Fault: the cutoff is compared with > instead of >=.
best_match_strict(name, keys, cut) ==
    IF keys = <<>> THEN NoneVal
    ELSE LET norm_keys == [i \in 1..Len(keys) |-> normalize(keys[i])]
             hit == extractOne(normalize(name), norm_keys)
         IN  IF hit # NoneVal /\ hit[2] > cut
             THEN <<keys[index(norm_keys, hit[1])], hit[2]>>
             ELSE NoneVal

best_match(name, keys, cut) ==
    IF keys = <<>> THEN NoneVal
    ELSE LET norm_keys == [i \in 1..Len(keys) |-> normalize(keys[i])]
             hit == extractOne(normalize(name), norm_keys)
         IN  IF hit # NoneVal /\ hit[2] >= cut
             THEN <<keys[index(norm_keys, hit[1])], hit[2]>>
             ELSE NoneVal

----------------------------------------------------------------------------
(* Intent classifier: parse_intent.                                        *)

s_play == <<"p", "l", "a", "y">>
s_pause == <<"p", "a", "u", "s", "e">>
s_resume == <<"r", "e", "s", "u", "m", "e">>
s_next == <<"n", "e", "x", "t">>
s_previous == <<"p", "r", "e", "v", "i", "o", "u", "s">>
s_prev == <<"p", "r", "e", "v">>
s_mute == <<"m", "u", "t", "e">>
s_volup == <<"v", "o", "l", "u", "p">>
s_voldown == <<"v", "o", "l", "d", "o", "w", "n">>
s_my == <<" ", "m", "y">>
s_the == <<" ", "t", "h", "e">>
s_playlist == <<" ", "p", "l", "a", "y", "l", "i", "s", "t">>

TransportWords == {s_play, s_pause, s_resume, s_next, s_previous, s_prev, s_mute}

VolumeUpPhrases == {<<"v", "o", "l", "u", "m", "e", " ", "u", "p">>, <<"t", "u", "r", "n", " ", "i", "t", " ", "u", "p">>, <<"l", "o", "u", "d", "e", "r">>, <<"v", "o", "l", " ", "u", "p">>}

VolumeDownPhrases == {<<"v", "o", "l", "u", "m", "e", " ", "d", "o", "w", "n">>, <<"t", "u", "r", "n", " ", "i", "t", " ", "d", "o", "w", "n">>, <<"q", "u", "i", "e", "t", "e", "r">>, <<"v", "o", "l", " ", "d", "o", "w", "n">>}

OpenPhrases == {<<"o", "p", "e", "n", " ", "s", "p", "o", "t", "i", "f", "y">>, <<"l", "a", "u", "n", "c", "h", " ", "s", "p", "o", "t", "i", "f", "y">>, <<"o", "p", "e", "n", " ", "s", "p", "o", "t", "i">>, <<"o", "p", "e", "n", " ", "t", "h", "e", " ", "s", "p", "o", "t", "i", "f", "y">>}

UnrecognizedMsg == <<"U", "n", "r", "e", "c", "o", "g", "n", "i", "z", "e", "d", " ", "c", "o", "m", "m", "a", "n", "d", ".">>

StartsWith(s, p) == Len(s) >= Len(p) /\ SubSeq(s, 1, Len(p)) = p

EndsWith(s, p) == Len(s) >= Len(p) /\ SubSeq(s, Len(s) - Len(p) + 1, Len(s)) = p

\* The ways "play( my| the)?" can match, in the order the regex engine
\* tries them: the group with its first alternative, with its second,
\* then without the group.
PlayPrefixes == <<s_play \o s_my, s_play \o s_the, s_play>>

\* One way of matching ^<pre> (.+)<suffix>$: a space after the prefix, at
\* least one character for the group, the suffix at the end.
MatchesWith(s, pre, suffix) ==
    /\ StartsWith(s, pre \o <<" ">>)
    /\ EndsWith(s, suffix)
    /\ Len(s) >= Len(pre) + 1 + 1 + Len(suffix)

\* re.match(r"^play( my| the)? (.+)<suffix>$", s): m.group(2) of the first
\* way that matches, None when none does.
re_match(s, suffix) ==
    IF \E k \in 1..Len(PlayPrefixes) : MatchesWith(s, PlayPrefixes[k], suffix)
    THEN LET k == CHOOSE k \in 1..Len(PlayPrefixes) :
                    /\ MatchesWith(s, PlayPrefixes[k], suffix)
                    /\ \A j \in 1..(k - 1) : ~MatchesWith(s, PlayPrefixes[j], suffix)
         IN  SubSeq(s, Len(PlayPrefixes[k]) + 2, Len(s) - Len(suffix))
    ELSE NoneVal

\* list(playlists.keys())
dict_keys(pl) == [i \in 1..Len(pl) |-> pl[i][1]]

\* playlists[label]: dict keys are unique.
dict_get(pl, label) == pl[CHOOSE i \in 1..Len(pl) : pl[i][1] = label][2]

\* Fault: the transport word is returned as heard, prev included.
transport_arg_as_heard(t) == t

\* "previous" if t == "prev" else t
transport_arg(t) == IF t = s_prev THEN s_previous ELSE t

\* Fault: the trailing-"playlist" pattern never gets its turn (the looser
\* pattern is tried first, or the pattern is mistyped).
playlist_pattern_skipped(t) == NoneVal

\* re.match(r"^play( my| the)? (.+) playlist$", t)
playlist_pattern(t) == re_match(t, s_playlist)

\* re.match(r"^play( my| the)? (.+)$", t)
loose_pattern(t) == re_match(t, <<>>)

\* Fault: the message does not name the playlist.
UnknownPlaylistMsg_unnamed(raw) == <<"I", " ", "d", "o", "n", "'", "t", " ", "k", "n", "o", "w", " ", "t", "h", "a", "t", " ", "p", "l", "a", "y", "l", "i", "s", "t", ".", " ", "A", "d", "d", " ", "i", "t", " ", "t", "o", " ", "c", "o", "n", "f", "i", "g", ".", "j", "s", "o", "n", ".">>

UnknownPlaylistMsg(raw) ==
    <<"I", " ", "d", "o", "n", "'", "t", " ", "k", "n", "o", "w", " ", "t", "h", "e", " ", "'">> \o raw \o <<"'", " ", "p", "l", "a", "y", "l", "i", "s", "t", ".", " ", "A", "d", "d", " ", "i", "t", " ", "t", "o", " ", "c", "o", "n", "f", "i", "g", ".", "j", "s", "o", "n", ".">>

\* The branch taken when the trailing-"playlist" pattern matched.
playlist_branch(m, pl) ==
    LET raw == strip(m)
        hit == best_match(raw, dict_keys(pl), cutoff)
    IN  IF hit # NoneVal THEN <<"playlist", dict_get(pl, hit[1])>>
        ELSE <<"say", UnknownPlaylistMsg(raw)>>

\* Fault: the name is always read as a song, known playlist or not.
loose_branch_song_only(m, pl) == <<"song", strip(m)>>

\* The branch taken when only the looser pattern matched.
loose_branch(m, pl) ==
    LET raw == strip(m)
        hit == best_match(raw, dict_keys(pl), cutoff)
    IN  IF hit # NoneVal THEN <<"playlist", dict_get(pl, hit[1])>>
        ELSE <<"song", raw>>

\* Fault: the function has no final return and falls off its end.
default_intent_missing == NoneVal

default_intent == <<"say", UnrecognizedMsg>>

parse_intent(txt, pl) ==
    LET t == normalize(txt)
    IN  IF t \in TransportWords THEN <<"transport", transport_arg(t)>>
        ELSE IF t \in VolumeUpPhrases THEN <<"transport", s_volup>>
        ELSE IF t \in VolumeDownPhrases THEN <<"transport", s_voldown>>
        ELSE IF playlist_pattern(t) # NoneVal THEN playlist_branch(playlist_pattern(t), pl)
        ELSE IF loose_pattern(t) # NoneVal THEN loose_branch(loose_pattern(t), pl)
        ELSE IF t \in OpenPhrases THEN <<"open", NoneVal>>
        ELSE default_intent

----------------------------------------------------------------------------
(* Inputs.                                                                 *)

\* One character of each kind normalize tells apart: a lower-case letter,
\* an upper-case letter, a digit, the space, punctuation, other whitespace.
Alphabet == {"a", "B", "7", " ", "!", "\t"}

Punctuation == {"!"}

RawStrings == UNION {[1..n -> Alphabet] : n \in 0..MaxLen}

w_chill == <<"c", "h", "i", "l", "l">>
w_my == <<"m", "y">>
w_the == <<"t", "h", "e">>
w_playlist == <<"p", "l", "a", "y", "l", "i", "s", "t">>

CoreWords == {s_play, w_my, w_the, w_playlist, w_chill}

WordSeqs == UNION {[1..n -> CoreWords] : n \in 0..MaxWords}

RECURSIVE Join(_, _)
Join(ws, sep) ==
    IF ws = <<>> THEN <<>>
    ELSE IF Len(ws) = 1 THEN ws[1]
    ELSE ws[1] \o sep \o Join(Tail(ws), sep)

\* The phrases the code names literally, and some that it does not know.
OtherPhrases ==
    {<<"a", "s", "d", "k", "j", "a", "s", "d">>,
     <<"o", "p", "e", "n">>,
     <<"s", "p", "o", "t", "i", "f", "y", " ", "o", "p", "e", "n">>,
     <<"p", "l", "a", "y", " ", "p", "r", "e", "v">>,
     <<"p", "l", "a", "y", "s", " ", "c", "h", "i", "l", "l", " ", "p", "l", "a", "y", "l", "i", "s", "t">>,
     <<"p", "l", "a", "y", " ", "!", " ", "p", "l", "a", "y", "l", "i", "s", "t">>,
     <<"P", "l", "a", "y", "!">>,
     <<"p", "l", "a", "y", " ", "t", "h", "e", " ", " ", "C", "h", "i", "l", "l", " ", "p", "l", "a", "y", "l", "i", "s", "t">>}

LiteralPhrases ==
    TransportWords \cup VolumeUpPhrases \cup VolumeDownPhrases \cup OpenPhrases
        \cup OtherPhrases

\* What speech recognition makes of a phrase: capital first letter and a
\* final full stop.
Capitalize(s) ==
    IF s = <<>> THEN s
    ELSE IF s[1] \in Range(LowerLetters)
    THEN <<UpperLetters[CHOOSE i \in 1..Len(LowerLetters) : LowerLetters[i] = s[1]]>> \o Tail(s)
    ELSE s

Sentence(s) == Capitalize(s) \o <<".">>

Transcripts ==
    {Join(ws, <<" ">>) : ws \in WordSeqs}
        \cup {Sentence(Join(ws, <<" ">>)) : ws \in WordSeqs}
        \cup {Join(ws, <<",", " ">>) : ws \in WordSeqs}
        \cup LiteralPhrases
        \cup {Sentence(p) : p \in LiteralPhrases}

uri_a == <<"u", "r", "i", ":", "a">>
uri_b == <<"u", "r", "i", ":", "b">>

Labels == {<<"C", "h", "i", "l", "l">>, <<"c", "h", "i", "l", "l", "!">>, <<"R", "o", "c", "k">>}

Injective(s) == \A i, j \in 1..Len(s) : s[i] = s[j] => i = j

\* The playlist maps of at most n labels: a dict has each key once.
PlaylistMaps(n, targets) ==
    {pl \in UNION {[1..k -> Labels \X targets] : k \in 0..n} : Injective(dict_keys(pl))}

\* The playlist maps the classifier is run with: none, one label, two
\* labels with an empty first target, two labels that normalize alike with
\* a missing first target.
ParsePlaylists ==
    { <<>>,
      << <<<<"C", "h", "i", "l", "l">>, uri_a>> >>,
      << <<<<"R", "o", "c", "k">>, <<>> >>, <<<<"C", "h", "i", "l", "l">>, uri_b>> >>,
      << <<<<"c", "h", "i", "l", "l", "!">>, NoneVal>>, <<<<"C", "h", "i", "l", "l">>, uri_a>> >> }

\* The name parse_intent asks best_match about, if any.
Queries(txt) ==
    LET t == normalize(txt)
    IN  IF playlist_pattern(t) # NoneVal THEN {strip(playlist_pattern(t))}
        ELSE IF loose_pattern(t) # NoneVal THEN {strip(loose_pattern(t))}
        ELSE {}

\* The scorers on the pairs (normalized name, normalized label) of a run.
Scorers(names, labels, vals) ==
    [{<<normalize(nm), normalize(labels[i])>> : nm \in names, i \in 1..Len(labels)} -> vals]

----------------------------------------------------------------------------
(* The three pure functions, each applied to every input of its set.       *)

\* PTTRecorder.__init__: nothing recorded, nothing queued.
RecorderIdle ==
    /\ key = FALSE
    /\ presses = 0
    /\ recording = FALSE
    /\ q = <<>>
    /\ produced = 0
    /\ chunks = <<>>
    /\ woke = 0
    /\ audio = <<0, <<>>>>

Idle ==
    /\ backend = "none"
    /\ intent = NoneVal
    /\ calls = <<>>
    /\ notices = <<>>
    /\ utterances = 0
    /\ failures = <<>>
    /\ errors = 0
    /\ attempts = 0
    /\ stream = FALSE
    /\ playing = FALSE
    /\ base = FALSE
    /\ toggles = 0
    /\ RecorderIdle

Frame ==
    UNCHANGED <<text, playlists, scorer, backend, intent, calls, notices, utterances,
                loopvars, recvars>>

InitNormalize ==
    /\ text \in RawStrings
    /\ playlists = <<>>
    /\ scorer = <<>>
    /\ ret = NoneVal
    /\ pc = "call"
    /\ Idle

CallNormalize ==
    /\ pc = "call"
    /\ ret' = normalize(text)
    /\ pc' = "done"
    /\ Frame

SpecNormalize == InitNormalize /\ [][CallNormalize]_vars

InitMatch ==
    /\ text \in {w_chill, <<"C", "h", "i", "l", "l", "?">>}
    /\ playlists \in PlaylistMaps(MaxLabels, {uri_a})
    /\ scorer \in Scorers({text}, dict_keys(playlists), ScoreVals)
    /\ ret = NoneVal
    /\ pc = "call"
    /\ Idle

CallBestMatch ==
    /\ pc = "call"
    /\ ret' = best_match(text, dict_keys(playlists), cutoff)
    /\ pc' = "done"
    /\ Frame

SpecMatch == InitMatch /\ [][CallBestMatch]_vars

InitParse ==
    /\ text \in Transcripts
    /\ playlists \in ParsePlaylists
    /\ scorer \in Scorers(Queries(text), dict_keys(playlists), {cutoff - 1, cutoff})
    /\ ret = NoneVal
    /\ pc = "call"
    /\ Idle

CallParseIntent ==
    /\ pc = "call"
    /\ ret' = parse_intent(text, playlists)
    /\ pc' = "done"
    /\ Frame

SpecParse == InitParse /\ [][CallParseIntent]_vars

----------------------------------------------------------------------------
(* The capture loop and the two dispatchers: main of assistant.py          *)
(* ("automation") and main / handle_intent_api of assistant_api.py ("api").*)

\* What speech recognition returns in the loop's runs: every transport
\* word, a phrase of each other kind, and nothing.
SpokenTexts ==
    TransportWords \cup
        { <<"T", "u", "r", "n", " ", "i", "t", " ", "u", "p", ".">>, <<"V", "o", "l", "u", "m", "e", " ", "d", "o", "w", "n", ".">>, <<"P", "l", "a", "y", " ", "t", "h", "e", " ", "c", "h", "i", "l", "l", " ", "p", "l", "a", "y", "l", "i", "s", "t", ".">>, <<"p", "l", "a", "y", " ", "c", "h", "i", "l", "l">>,
          <<"O", "p", "e", "n", " ", "S", "p", "o", "t", "i", "f", "y", ".">>, <<"a", "s", "d", "k", "j", "a", "s", "d">>, <<>> }

SpokenQueries == UNION {Queries(x) : x \in SpokenTexts}

\* media_transport's keymap.
keymap ==
    [c \in {s_play, s_pause, s_resume, s_next, s_previous, s_prev, s_mute, s_volup, s_voldown} |->
        IF c \in {s_play, s_pause, s_resume} THEN "play/pause media"
        ELSE IF c = s_next THEN "next track"
        ELSE IF c \in {s_previous, s_prev} THEN "previous track"
        ELSE IF c = s_mute THEN "volume mute"
        ELSE IF c = s_volup THEN "volume up"
        ELSE "volume down"]

\* media_transport(cmd): the calls it makes.
media_transport(cmd) ==
    IF cmd \in DOMAIN keymap
    THEN << <<"media_transport", cmd>>, <<"keyboard.send", keymap[cmd]>> >>
    ELSE << <<"media_transport", cmd>> >>

\* Fault: handle_intent_api without its "mute" branch.
api_transport_no_mute(arg) ==
    IF arg \in {s_play, s_pause, s_resume} THEN << <<"play_pause", NoneVal>> >>
    ELSE IF arg = s_next THEN << <<"next", NoneVal>> >>
    ELSE IF arg \in {s_previous, s_prev} THEN << <<"previous", NoneVal>> >>
    ELSE IF arg = s_volup THEN << <<"volume_step", 10>> >>
    ELSE IF arg = s_voldown THEN << <<"volume_step", -10>> >>
    ELSE <<>>

\* The transport branch of handle_intent_api: the SpotifyAPI call it makes.
api_transport(arg) ==
    IF arg \in {s_play, s_pause, s_resume} THEN << <<"play_pause", NoneVal>> >>
    ELSE IF arg = s_next THEN << <<"next", NoneVal>> >>
    ELSE IF arg \in {s_previous, s_prev} THEN << <<"previous", NoneVal>> >>
    ELSE IF arg = s_volup THEN << <<"volume_step", 10>> >>
    ELSE IF arg = s_voldown THEN << <<"volume_step", -10>> >>
    ELSE IF arg = s_mute THEN << <<"volume_step", -100>> >>
    ELSE <<>>

\* Fault: only None counts as a missing target, the empty string does not.
has_target_unless_none(arg) == arg # NoneVal

\* "if arg:" in the automation loop.
has_target(arg) == ~Falsy(arg)

\* "if not arg:" in handle_intent_api.
api_target_missing(arg) == Falsy(arg)

Init ==
    /\ backend \in {"automation", "api"}
    /\ playlists \in ParsePlaylists
    /\ scorer \in Scorers(SpokenQueries, dict_keys(playlists), {cutoff - 1, cutoff})
    /\ text = NoneVal
    /\ ret = NoneVal
    /\ intent = NoneVal
    /\ calls = <<>>
    /\ notices = <<>>
    /\ utterances = 0
    /\ pc = "record"
    /\ failures = <<>>
    /\ errors = 0
    /\ attempts = 0
    /\ stream = TRUE
    /\ playing \in (IF backend = "api" THEN BOOLEAN ELSE {FALSE})
    /\ base = playing
    /\ toggles = 0
    /\ RecorderIdle

Config == UNCHANGED <<playlists, scorer, backend, ret, stream, recvars>>

\* What a backend operation can do: return normally, return False
\* (automation), print a "[spotify] ..." message and return (api), or raise.
Outcomes == {"returns", "returns_false", "reports", "raises"}

\* Fault: the handler's except clause ends the loop.
after_exception_stops == "stopped"

\* "except Exception:" inside the for loop: print, traceback, next utterance.
after_exception == "record"

\* The remote player is left as it was.
PlayerSame == UNCHANGED <<playing, base, toggles>>

\* One backend operation called from the dispatcher.  The dispatcher never
\* looks at the value an operation returns.
Call(op, outcome, next) ==
    /\ outcome # "returns" => op # <<>>
    /\ calls' = calls \o op
    /\ failures' = IF outcome = "returns" THEN failures
                   ELSE Append(failures, <<op[1][1], outcome>>)
    /\ IF outcome = "raises"
       THEN /\ notices' = Append(notices, <<"handler_blew_up", NoneVal>>)
            /\ errors' = errors + 1
            /\ pc' = after_exception
       ELSE /\ notices' = IF outcome = "reports"
                          THEN Append(notices, <<"spotify_notice", NoneVal>>)
                          ELSE notices
            /\ errors' = errors
            /\ pc' = next
    /\ UNCHANGED <<text, intent, utterances, attempts>>
    /\ Config

Say(kind, payload) ==
    /\ notices' = Append(notices, <<kind, payload>>)
    /\ pc' = "record"
    /\ UNCHANGED <<text, intent, calls, utterances, failures, errors, attempts>>
    /\ PlayerSame
    /\ Config

\* record_blocking yields the audio of one push-to-talk press.
Yield ==
    /\ pc = "record"
    /\ utterances < MaxUtterances
    /\ utterances' = utterances + 1
    /\ text' = NoneVal
    /\ intent' = NoneVal
    /\ calls' = <<>>
    /\ notices' = <<>>
    /\ failures' = <<>>
    /\ attempts' = 0
    /\ pc' = "transcribe"
    /\ UNCHANGED errors
    /\ PlayerSame
    /\ Config

\* Ctrl+C while waiting: the loop ends and "finally: rec.stop()" runs.
Interrupt ==
    /\ pc = "record"
    /\ pc' = "stopped"
    /\ stream' = FALSE
    /\ UNCHANGED <<text, intent, calls, notices, utterances, failures, errors, attempts>>
    /\ PlayerSame
    /\ UNCHANGED <<playlists, scorer, backend, ret, recvars>>

Heard(txt) ==
    /\ text' = txt
    /\ attempts' = attempts + 1
    /\ IF txt = <<>>
       THEN /\ notices' = Append(notices, <<"heard_nothing", NoneVal>>)
            /\ pc' = "record"
       ELSE /\ notices' = Append(notices, <<"you", txt>>)
            /\ pc' = "parse"
    /\ UNCHANGED <<intent, calls, utterances, failures, errors>>
    /\ PlayerSame
    /\ Config

\* transcribe_audio, first attempt: model.transcribe with the configured
\* settings returns a text or raises.
Transcribe ==
    /\ pc = "transcribe"
    /\ \/ \E txt \in SpokenTexts : Heard(txt)
       \/ /\ pc' = "transcribe_retry"
          /\ attempts' = attempts + 1
          /\ UNCHANGED <<text, intent, calls, notices, utterances, failures, errors>>
          /\ PlayerSame
          /\ Config

\* transcribe_audio, the except branch: model.transcribe with vad_filter
\* off returns a text or raises, and then the handler's except prints.
TranscribeRetry ==
    /\ pc = "transcribe_retry"
    /\ \/ \E txt \in SpokenTexts : Heard(txt)
       \/ /\ notices' = Append(notices, <<"handler_blew_up", NoneVal>>)
          /\ attempts' = attempts + 1
          /\ errors' = errors + 1
          /\ pc' = after_exception
          /\ UNCHANGED <<text, intent, calls, utterances, failures>>
          /\ PlayerSame
          /\ Config

Parse ==
    /\ pc = "parse"
    /\ intent' = parse_intent(text, playlists)
    /\ pc' = "dispatch"
    /\ UNCHANGED <<text, calls, notices, utterances, failures, errors, attempts>>
    /\ PlayerSame
    /\ Config

\* ---- assistant.py, main: the if/elif chain on typ ----

\* Fault: the playlist branch opens the playlist before raising the window.
playlist_next_open_first(step) ==
    IF step = "dispatch" THEN "playlist_open" ELSE "playlist_front"

\* The statement order of the playlist branch: ensure_spotify_running();
\* bring_spotify_to_front(); then the "if arg:" test.
playlist_next(step) ==
    IF step = "dispatch" THEN "playlist_front" ELSE "playlist_open"

AutoTransport ==
    /\ pc = "dispatch" /\ backend = "automation" /\ intent[1] = "transport"
    /\ \E o \in (IF intent[2] \in DOMAIN keymap THEN {"returns", "raises"} ELSE {"returns_false"}) :
           Call(media_transport(intent[2]), o, "record")
    /\ PlayerSame

AutoPlaylistEnsure ==
    /\ pc = "dispatch" /\ backend = "automation" /\ intent[1] = "playlist"
    /\ \E o \in {"returns", "returns_false", "raises"} :
           Call(<< <<"ensure_spotify_running", NoneVal>> >>, o, playlist_next("dispatch"))
    /\ PlayerSame

AutoPlaylistFront ==
    /\ pc = "playlist_front"
    /\ \E o \in {"returns", "returns_false", "raises"} :
           Call(<< <<"bring_spotify_to_front", NoneVal>> >>, o, playlist_next("playlist_front"))
    /\ PlayerSame

\* open_spotify_uri catches what os.startfile raises and returns False.
AutoPlaylistOpen ==
    /\ pc = "playlist_open"
    /\ has_target(intent[2])
    /\ \E o \in {"returns", "returns_false"} :
           Call(<< <<"open_spotify_uri", intent[2]>> >>, o, "record")
    /\ PlayerSame

AutoPlaylistMissing ==
    /\ pc = "playlist_open"
    /\ ~has_target(intent[2])
    /\ Say("missing_playlist_uri", NoneVal)

AutoSongEnsure ==
    /\ pc = "dispatch" /\ backend = "automation" /\ intent[1] = "song"
    /\ \E o \in {"returns", "returns_false", "raises"} :
           Call(<< <<"ensure_spotify_running", NoneVal>> >>, o, "song_search")
    /\ PlayerSame

AutoSongSearch ==
    /\ pc = "song_search"
    /\ \E o \in {"returns", "raises"} : Call(<< <<"search_and_play", intent[2]>> >>, o, "record")
    /\ PlayerSame

AutoOpenEnsure ==
    /\ pc = "dispatch" /\ backend = "automation" /\ intent[1] = "open"
    /\ \E o \in {"returns", "returns_false", "raises"} :
           Call(<< <<"ensure_spotify_running", NoneVal>> >>, o, "open_front")
    /\ PlayerSame

AutoOpenFront ==
    /\ pc = "open_front"
    /\ \E o \in {"returns", "returns_false", "raises"} :
           Call(<< <<"bring_spotify_to_front", NoneVal>> >>, o, "record")
    /\ PlayerSame

AutoSay ==
    /\ pc = "dispatch" /\ backend = "automation" /\ intent[1] = "say"
    /\ Say("say", intent[2])

\* ---- assistant_api.py, SpotifyAPI and handle_intent_api ----

\* Fault: play_pause starts playback whatever the player is doing.
play_pause_always_starts(is_playing) == TRUE

\* SpotifyAPI.play_pause: pause_playback() if current_playback() says
\* is_playing, start_playback() otherwise; the value is the state it leaves.
play_pause(is_playing) == IF is_playing THEN FALSE ELSE TRUE

\* What a SpotifyAPI call that returned normally did to the player:
\* play_pause toggles it, start_playlist and search_and_play start playback,
\* the other calls leave the playing state alone.
Played(op, outcome) ==
    IF outcome = "returns" /\ op # <<>> /\ op[1][1] = "play_pause"
    THEN /\ playing' = play_pause(playing)
         /\ toggles' = toggles + 1
         /\ base' = base
    ELSE IF outcome = "returns" /\ op # <<>> /\ op[1][1] \in {"start_playlist", "search_and_play"}
    THEN /\ playing' = TRUE
         /\ base' = TRUE
         /\ toggles' = 0
    ELSE PlayerSame

\* The outcomes of a SpotifyAPI method: the methods that need a device
\* print "[spotify] No active device..." and return when there is none.
ApiOutcomes(op) ==
    IF op = <<>> THEN {"returns"}
    ELSE IF op[1][1] \in {"volume_step", "start_playlist", "search_and_play"}
    THEN {"returns", "reports", "raises"}
    ELSE {"returns", "raises"}

ApiCall(op, next) ==
    \E o \in ApiOutcomes(op) : Call(op, o, next) /\ Played(op, o)

ApiTransport ==
    /\ pc = "dispatch" /\ backend = "api" /\ intent[1] = "transport"
    /\ ApiCall(api_transport(intent[2]), "record")

ApiPlaylistStart ==
    /\ pc = "dispatch" /\ backend = "api" /\ intent[1] = "playlist"
    /\ ~api_target_missing(intent[2])
    /\ ApiCall(<< <<"start_playlist", intent[2]>> >>, "record")

ApiPlaylistMissing ==
    /\ pc = "dispatch" /\ backend = "api" /\ intent[1] = "playlist"
    /\ api_target_missing(intent[2])
    /\ Say("missing_playlist_uri", NoneVal)

ApiSong ==
    /\ pc = "dispatch" /\ backend = "api" /\ intent[1] = "song"
    /\ ApiCall(<< <<"search_and_play", intent[2]>> >>, "record")

\* _ensure_device, then one of two messages.
ApiOpen ==
    /\ pc = "dispatch" /\ backend = "api" /\ intent[1] = "open"
    /\ ApiCall(<< <<"_ensure_device", NoneVal>> >>, "api_open_report")

ApiOpenReport ==
    /\ pc = "api_open_report"
    /\ \E k \in {"target_device_ready", "open_spotify_on_any_device"} : Say(k, NoneVal)

ApiSay ==
    /\ pc = "dispatch" /\ backend = "api" /\ intent[1] = "say"
    /\ Say("say", intent[2])

Next ==
    \/ Yield
    \/ Interrupt
    \/ Transcribe
    \/ TranscribeRetry
    \/ Parse
    \/ AutoTransport
    \/ AutoPlaylistEnsure
    \/ AutoPlaylistFront
    \/ AutoPlaylistOpen
    \/ AutoPlaylistMissing
    \/ AutoSongEnsure
    \/ AutoSongSearch
    \/ AutoOpenEnsure
    \/ AutoOpenFront
    \/ AutoSay
    \/ ApiTransport
    \/ ApiPlaylistStart
    \/ ApiPlaylistMissing
    \/ ApiSong
    \/ ApiOpen
    \/ ApiOpenReport
    \/ ApiSay

Spec == Init /\ [][Next]_vars

----------------------------------------------------------------------------
(* Properties of normalize, best_match and parse_intent.                   *)

Tags == {"transport", "playlist", "song", "open", "say"}

Contains(s, p) == \E i \in 0..(Len(s) - Len(p)) : SubSeq(s, i + 1, i + Len(p)) = p

\* The normalized transcript is "play <something>": the looser pattern's
\* language, which includes the trailing-"playlist" pattern's.
IsPlayCommand(t) == StartsWith(t, s_play \o <<" ">>) /\ Len(t) >= Len(s_play) + 2

\* The normalized transcript is "play <at least one character> playlist".
HasNameBeforePlaylist(t) ==
    /\ StartsWith(t, s_play \o <<" ">>)
    /\ EndsWith(t, s_playlist)
    /\ Len(t) >= Len(s_play) + 2 + Len(s_playlist)

EndsInWordPlaylist(t) == t = w_playlist \/ EndsWith(t, s_playlist)

LiteralCommand(t) == t \in TransportWords \cup VolumeUpPhrases \cup VolumeDownPhrases

\* Some label of the map scores at least the cutoff against the name.
ReachesCutoff(name, pl) ==
    \E i \in 1..Len(pl) : Score(normalize(name), normalize(pl[i][1])) >= cutoff

\* The scores of the labels against the name, and the highest of them.
LabelScores(name, labels) == {Score(normalize(name), normalize(labels[i])) : i \in 1..Len(labels)}

MaxScore(name, labels) ==
    CHOOSE m \in LabelScores(name, labels) : \A s \in LabelScores(name, labels) : s <= m

\* C1: parse_intent returns, for every transcript and playlist map, one pair
\* whose tag is one of transport, playlist, song, open, say; when the
\* normalized transcript is no literal phrase and no "play <name>" command
\* (the empty transcript included) the pair is (say, "Unrecognized command.").
C1_TotalClosed ==
    pc = "done" =>
        LET t == normalize(text)
        IN  /\ Len(ret) = 2
            /\ ret[1] \in Tags
            /\ (~LiteralCommand(t) /\ ~IsPlayCommand(t) /\ t \notin OpenPhrases)
                   => ret = <<"say", UnrecognizedMsg>>

C1_Witness ==
    /\ pc = "done"
    /\ text # <<>>
    /\ normalize(text) = <<>>
    /\ playlists = <<>>
    /\ ret = <<"say", UnrecognizedMsg>>

\* C2 as claimed: a transcript whose normalized form ends in the word
\* "playlist" never yields a song intent whose name contains "playlist".
C2_NeverSongNamedPlaylist ==
    (pc = "done" /\ EndsInWordPlaylist(normalize(text)))
        => ~(ret[1] = "song" /\ Contains(ret[2], w_playlist))

\* C2 as amended: when a name stands between "play" and the final
\* "playlist" the result is never a song intent; a transcript ending in the
\* word "playlist" yields a song intent only when it is "play playlist" (one
\* or two spaces), and the song name is then exactly "playlist".
C2_PlaylistPatternFirst ==
    pc = "done" =>
        LET t == normalize(text)
        IN  EndsInWordPlaylist(t) =>
                /\ HasNameBeforePlaylist(t) => ret[1] \in {"playlist", "say"}
                /\ ret[1] = "song" =>
                       /\ ret[2] = w_playlist
                       /\ t \in {s_play \o s_playlist, s_play \o <<" ">> \o s_playlist}

C2_Witness ==
    /\ pc = "done"
    /\ HasNameBeforePlaylist(normalize(text))
    /\ Contains(normalize(text), w_chill)
    /\ playlists # <<>>
    /\ ret[1] = "say"

\* C3: a literal transport word yields (transport, word) with prev turned
\* into previous, a volume-up phrase (transport, volup), a volume-down
\* phrase (transport, voldown), whatever the playlist map; a transport
\* argument is one of play, pause, resume, next, previous, mute, volup,
\* voldown.
C3_TransportLiterals ==
    pc = "done" =>
        LET t == normalize(text)
        IN  /\ t \in {s_play, s_pause, s_resume, s_next, s_previous, s_mute}
                   => ret = <<"transport", t>>
            /\ t = s_prev => ret = <<"transport", s_previous>>
            /\ t \in VolumeUpPhrases => ret = <<"transport", s_volup>>
            /\ t \in VolumeDownPhrases => ret = <<"transport", s_voldown>>
            /\ ret[1] = "transport" =>
                   ret[2] \in {s_play, s_pause, s_resume, s_next, s_previous, s_mute,
                               s_volup, s_voldown}

C3_Witness ==
    /\ pc = "done"
    /\ normalize(text) = s_prev
    /\ text # s_prev
    /\ playlists # <<>>
    /\ ret = <<"transport", s_previous>>

\* C4: when the normalized transcript matches "play [my|the] <name>
\* playlist" and is no literal phrase, the result is (playlist,
\* playlists[label]) if best_match finds a label for <name> and otherwise a
\* say intent whose message contains <name>; never song, open or transport.
C4_PlaylistBranch ==
    pc = "done" =>
        LET t == normalize(text)
            m == playlist_pattern(t)
            name == strip(m)
            hit == best_match(name, dict_keys(playlists), cutoff)
        IN  (m # NoneVal /\ ~LiteralCommand(t)) =>
                /\ hit # NoneVal => ret = <<"playlist", dict_get(playlists, hit[1])>>
                /\ hit = NoneVal => ret[1] = "say" /\ Contains(ret[2], name)
                /\ ret[1] \in {"playlist", "say"}

C4_Witness ==
    /\ pc = "done"
    /\ playlist_pattern(normalize(text)) # NoneVal
    /\ playlists # <<>>
    /\ best_match(strip(playlist_pattern(normalize(text))), dict_keys(playlists), cutoff) = NoneVal
    /\ ret[1] = "say"
    /\ Contains(ret[2], w_chill)

\* C5: when the normalized transcript matches "play [my|the] <name>" but
\* not the trailing-"playlist" pattern, the result is (playlist,
\* playlists[label]) whenever a label reaches the cutoff for <name>, and
\* (song, <name>) exactly when none does, so always with an empty map.
C5_LooseBranch ==
    pc = "done" =>
        LET t == normalize(text)
            m == loose_pattern(t)
            name == strip(m)
            hit == best_match(name, dict_keys(playlists), cutoff)
        IN  (m # NoneVal /\ playlist_pattern(t) = NoneVal) =>
                /\ ReachesCutoff(name, playlists)
                       => hit # NoneVal /\ ret = <<"playlist", dict_get(playlists, hit[1])>>
                /\ ret = <<"song", name>> <=> ~ReachesCutoff(name, playlists)
                /\ playlists = <<>> => ret = <<"song", name>>

C5_Witness ==
    /\ pc = "done"
    /\ loose_pattern(normalize(text)) # NoneVal
    /\ playlist_pattern(normalize(text)) = NoneVal
    /\ ReachesCutoff(strip(loose_pattern(normalize(text))), playlists)
    /\ ret[1] = "playlist"
    /\ ret[2] = uri_b

\* C6: best_match returns None exactly when there is no label or the
\* highest score is below 78 (a score of 78 is a match); otherwise it
\* returns one of the labels passed in, as passed in, with the highest score.
C6_CutoffAndOriginalLabel ==
    pc = "done" =>
        LET labels == dict_keys(playlists)
        IN  /\ ret = NoneVal <=> (labels = <<>> \/ MaxScore(text, labels) < 78)
            /\ ret # NoneVal =>
                   /\ ret[1] \in Range(labels)
                   /\ Score(normalize(text), normalize(ret[1])) = MaxScore(text, labels)
                   /\ ret[2] = MaxScore(text, labels)

C6_Witness ==
    /\ pc = "done"
    /\ playlists # <<>>
    /\ MaxScore(text, dict_keys(playlists)) = 78
    /\ ret # NoneVal
    /\ ret[1] # normalize(ret[1])
    /\ ret[2] = 78

\* C7: among the labels that share the highest score (labels that
\* normalize alike included), best_match returns the first in list order.
C7_FirstOfTies ==
    (pc = "done" /\ ret # NoneVal) =>
        LET labels == dict_keys(playlists)
        IN  \E i \in 1..Len(labels) :
                /\ labels[i] = ret[1]
                /\ \A j \in 1..(i - 1) :
                       Score(normalize(text), normalize(labels[j])) < MaxScore(text, labels)

C7_Witness ==
    /\ pc = "done"
    /\ ret # NoneVal
    /\ LET labels == dict_keys(playlists)
       IN  /\ Len(labels) >= 2
           /\ labels[1] = ret[1]
           /\ normalize(labels[2]) = normalize(labels[1])

\* C8: normalize is idempotent, its result holds only characters of
\* [a-z0-9 ] and neither starts nor ends with a space, and a string of
\* punctuation only (the empty string included) normalizes to the empty
\* string.
C8_NormalizeIdempotent ==
    pc = "done" =>
        /\ normalize(ret) = ret
        /\ \A i \in 1..Len(ret) : ret[i] \in Range(LowerLetters) \cup Digits \cup {" "}
        /\ ret # <<>> => ret[1] # " " /\ ret[Len(ret)] # " "
        /\ (\A i \in 1..Len(text) : text[i] \in Punctuation) => ret = <<>>

C8_Witness ==
    /\ pc = "done"
    /\ Len(text) >= 2
    /\ text[1] \in Punctuation
    /\ text[Len(text)] = "\t"
    /\ ret # <<>>
    /\ ret # text

----------------------------------------------------------------------------
(* Properties of the dispatchers.                                          *)

Dispatching == pc \notin {"transcribe", "transcribe_retry", "parse", "stopped"} /\ intent # NoneVal

OpensPlaylist(c) == c[1] \in {"open_spotify_uri", "start_playlist"}

\* C9: in both dispatchers a playlist intent whose target is empty or
\* missing makes no backend call at all (no ensure_spotify_running, no
\* bring_spotify_to_front, no open) and only prints the missing-target
\* notice.
C9_MissingTargetNoAction ==
    (Dispatching /\ intent[1] = "playlist" /\ Falsy(intent[2])) =>
        /\ calls = <<>>
        /\ \A i \in 1..Len(notices) :
               notices[i][1] \in {"you", "missing_playlist_uri"}

\* C10: over every run of the loop, open_spotify_uri (automation) and
\* start_playlist (api) are called only while a playlist intent with a
\* non-empty target is dispatched, and with that target; a playlist intent
\* with target None or "" never calls them.
C10_OpenOnlyWithTarget ==
    \A i \in 1..Len(calls) :
        OpensPlaylist(calls[i]) =>
            /\ intent # NoneVal
            /\ intent[1] = "playlist"
            /\ intent[2] # NoneVal
            /\ intent[2] # <<>>
            /\ calls[i][2] = intent[2]

C10_Witness ==
    /\ utterances = 2
    /\ backend = "automation"
    /\ pc = "record"
    /\ intent = <<"playlist", uri_b>>
    /\ calls = << <<"ensure_spotify_running", NoneVal>>, <<"bring_spotify_to_front", NoneVal>>,
                  <<"open_spotify_uri", uri_b>> >>

PlaylistSteps(target) ==
    << <<"ensure_spotify_running", NoneVal>>, <<"bring_spotify_to_front", NoneVal>>,
       <<"open_spotify_uri", target>> >>

Blew == \E i \in 1..Len(notices) : notices[i][1] = "handler_blew_up"

\* C11: while the automation dispatcher handles a playlist intent with a
\* non-empty target, the backend calls made so far are always an initial
\* part of ensure_spotify_running, bring_spotify_to_front,
\* open_spotify_uri(target): each at most once, in that order, the open
\* never before the other two; and the dispatch that ends without an
\* exception has made exactly these three calls.
C11_PlaylistOrder ==
    (Dispatching /\ backend = "automation" /\ intent[1] = "playlist" /\ ~Falsy(intent[2])) =>
        /\ Len(calls) <= 3
        /\ calls = SubSeq(PlaylistSteps(intent[2]), 1, Len(calls))
        /\ (pc = "record" /\ ~Blew) => calls = PlaylistSteps(intent[2])

C11_Witness ==
    /\ backend = "automation"
    /\ pc = "record"
    /\ intent = <<"playlist", uri_a>>
    /\ calls = PlaylistSteps(uri_a)
    /\ failures = <<>>

\* The utterance's dispatch did something the user can observe: a backend
\* call or a printed line other than the "[you]" echo.
Handled ==
    \/ calls # <<>>
    \/ \E i \in 1..Len(notices) : notices[i][1] # "you"

\* C12: every intent the loop gets from parse_intent has a tag of the closed
\* set and is taken by a branch of the dispatcher in use; a transport
\* argument always has a keymap entry and a handle_intent_api branch; and a
\* dispatch that has finished has called the backend or printed a message
\* (a transport that returned sent its key).
C12_Exhaustive ==
    intent # NoneVal =>
        /\ intent[1] \in Tags
        /\ intent[1] = "transport" =>
               /\ intent[2] \in DOMAIN keymap
               /\ api_transport(intent[2]) # <<>>
        /\ pc = "dispatch" => ENABLED Next
        /\ pc = "record" => Handled
        /\ (pc = "record" /\ backend = "automation" /\ intent[1] = "transport" /\ ~Blew) =>
               \E i \in 1..Len(calls) : calls[i][1] = "keyboard.send"

C12_Witness ==
    /\ backend = "api"
    /\ pc = "record"
    /\ intent = <<"transport", s_mute>>
    /\ calls = << <<"volume_step", -100>> >>
    /\ failures = <<>>

\* -------------------------------------------------------------------------
\* The push-to-talk recorder (PTTRecorder): the keyboard, the audio callback
\* of the input stream, and the consumer thread inside record_blocking.
\* A chunk is <<number, press during which it was enqueued, key held then>>.
\* -------------------------------------------------------------------------

MaxPresses == 2

MaxChunks == 3

RecFrame == UNCHANGED <<text, playlists, scorer, ret, backend, intent, calls, notices, loopvars>>

InitRec ==
    /\ text = NoneVal
    /\ playlists = <<>>
    /\ scorer = <<>>
    /\ ret = NoneVal
    /\ backend = "none"
    /\ intent = NoneVal
    /\ calls = <<>>
    /\ notices = <<>>
    /\ utterances = 0
    /\ failures = <<>>
    /\ errors = 0
    /\ attempts = 0
    /\ stream = TRUE
    /\ playing = FALSE
    /\ base = FALSE
    /\ toggles = 0
    /\ RecorderIdle
    /\ pc = "wait"

\* The user presses the hotkey; a consumer blocked in keyboard.wait wakes.
Press ==
    /\ ~key
    /\ presses < MaxPresses
    /\ key' = TRUE
    /\ presses' = presses + 1
    /\ IF pc = "wait"
       THEN pc' = "woken" /\ woke' = presses + 1
       ELSE UNCHANGED <<pc, woke>>
    /\ UNCHANGED <<recording, q, produced, chunks, audio, utterances>>
    /\ RecFrame

\* The key is still down when keyboard.wait starts: its repeated key-down
\* event wakes the consumer.
Repeat ==
    /\ key
    /\ pc = "wait"
    /\ pc' = "woken"
    /\ woke' = presses
    /\ UNCHANGED <<key, presses, recording, q, produced, chunks, audio, utterances>>
    /\ RecFrame

Release ==
    /\ key
    /\ key' = FALSE
    /\ UNCHANGED <<pc, presses, recording, q, produced, chunks, woke, audio, utterances>>
    /\ RecFrame

\* _callback on the stream's thread: "if self.recording: self.q.put(...)".
Callback ==
    /\ stream
    /\ recording
    /\ produced < MaxChunks
    /\ produced' = produced + 1
    /\ q' = Append(q, <<produced + 1, presses, key>>)
    /\ UNCHANGED <<pc, key, presses, recording, chunks, woke, audio, utterances>>
    /\ RecFrame

\* self.recording = True; chunks = []
StartRecording ==
    /\ pc = "woken"
    /\ recording' = TRUE
    /\ chunks' = <<>>
    /\ pc' = "drain"
    /\ UNCHANGED <<key, presses, q, produced, woke, audio, utterances>>
    /\ RecFrame

\* while keyboard.is_pressed(hotkey):
LoopTest ==
    /\ pc = "drain"
    /\ pc' = IF key THEN "get" ELSE "after"
    /\ UNCHANGED <<key, presses, recording, q, produced, chunks, woke, audio, utterances>>
    /\ RecFrame

\* chunks.append(self.q.get(timeout=0.1)) with a chunk in the queue.
GetChunk ==
    /\ pc = "get"
    /\ q # <<>>
    /\ chunks' = Append(chunks, Head(q))
    /\ q' = Tail(q)
    /\ pc' = "drain"
    /\ UNCHANGED <<key, presses, recording, produced, woke, audio, utterances>>
    /\ RecFrame

\* Fault: q.get() without a timeout.
get_without_timeout == FALSE

\* q.get(timeout=0.1) gives up on an empty queue and raises queue.Empty.
get_timeout == TRUE

\* except queue.Empty: pass
GetTimeout ==
    /\ pc = "get"
    /\ q = <<>>
    /\ get_timeout
    /\ pc' = "drain"
    /\ UNCHANGED <<key, presses, recording, q, produced, chunks, woke, audio, utterances>>
    /\ RecFrame

\* self.recording = False
StopRecording ==
    /\ pc = "after"
    /\ recording' = FALSE
    /\ pc' = "check"
    /\ UNCHANGED <<key, presses, q, produced, chunks, woke, audio, utterances>>
    /\ RecFrame

\* Fault: the audio is yielded whether or not anything was collected.
yield_always(collected) == TRUE

\* "if chunks:"
yield_guard(collected) == collected # <<>>

\* audio = np.concatenate(chunks, axis=0).flatten(); yield audio
YieldAudio ==
    /\ pc = "check"
    /\ yield_guard(chunks)
    /\ audio' = <<woke, chunks>>
    /\ utterances' = utterances + 1
    /\ pc' = "yielded"
    /\ UNCHANGED <<key, presses, recording, q, produced, chunks, woke>>
    /\ RecFrame

\* Nothing collected: print "Processing..." and wait for the next press.
SkipEmpty ==
    /\ pc = "check"
    /\ ~yield_guard(chunks)
    /\ pc' = "wait"
    /\ UNCHANGED <<key, presses, recording, q, produced, chunks, woke, audio, utterances>>
    /\ RecFrame

\* The body of main's for loop has handled the audio; the generator is
\* resumed, prints "Processing..." and waits for the next press.
Resume ==
    /\ pc = "yielded"
    /\ pc' = "wait"
    /\ UNCHANGED <<key, presses, recording, q, produced, chunks, woke, audio, utterances>>
    /\ RecFrame

\* The steps of the consumer thread that do not wait for the user.
Consumer ==
    \/ StartRecording
    \/ LoopTest
    \/ GetChunk
    \/ GetTimeout
    \/ StopRecording
    \/ YieldAudio
    \/ SkipEmpty
    \/ Resume

NextRec ==
    \/ Press
    \/ Repeat
    \/ Release
    \/ Callback
    \/ Consumer

SpecRec == InitRec /\ [][NextRec]_vars

\* The consumer thread is scheduled; the user and the audio device owe
\* nothing.
SpecRecFair == InitRec /\ [][NextRec]_vars /\ WF_vars(Consumer)

\* C13: a press for which the consumer collected no chunk yields nothing:
\* every step that yields an utterance finds chunks non-empty and yields
\* exactly them, and the consumer leaves the "if chunks:" test with an
\* empty list only to wait for the next press, with no utterance counted
\* and nothing handed to the loop body.
C13_EmptyPressNoUtterance ==
    [][ /\ utterances' > utterances => (chunks # <<>> /\ audio' = <<woke, chunks>>)
        /\ (pc = "check" /\ chunks = <<>> /\ pc' # pc) =>
               (pc' = "wait" /\ utterances' = utterances /\ audio' = audio) ]_vars

C13_Witness ==
    /\ pc = "wait"
    /\ woke = 1
    /\ presses = 1
    /\ ~key
    /\ ~recording
    /\ chunks = <<>>
    /\ utterances = 0

\* C16: when an utterance is handed off, no chunk that was enqueued while
\* the key was held during its press is still in the queue.
C16_AllChunksHandedOff ==
    pc = "yielded" =>
        \A i \in 1..Len(q) : ~(q[i][2] = audio[1] /\ q[i][3])

\* C17: once the key is up while the consumer is in its drain loop, the
\* consumer gets out of the loop with the recording flag cleared and hands
\* off or skips the utterance (unless the key goes down again first), the
\* audio callback enqueuing nothing more or not.
C17_DrainEnds ==
    (pc \in {"drain", "get"} /\ ~key) ~>
        (key \/ (pc \in {"yielded", "wait"} /\ ~recording))

C17_Witness ==
    /\ pc = "check"
    /\ ~key
    /\ ~recording
    /\ q = <<>>
    /\ chunks = <<>>
    /\ produced = 0
    /\ presses = 1

\* C19: an utterance holds no chunk enqueued during a press earlier than
\* its own.
C19_OnlyOwnChunks ==
    pc = "yielded" =>
        \A i \in 1..Len(audio[2]) : audio[2][i][2] >= audio[1]

\* C14: every step in which the loop's "except Exception" runs (an
\* exception from transcribing or dispatching one utterance) leaves the loop
\* waiting for the next press with the recorder stream still started, where
\* the next utterance is taken; the loop ends only by an interrupt while it
\* waits, never in a step that handled an exception.
C14_LoopSurvives ==
    /\ [][ /\ errors' > errors => (pc' = "record" /\ stream /\ stream')
           /\ (pc' = "stopped" /\ pc # "stopped") => (pc = "record" /\ errors' = errors) ]_vars
    /\ []((errors > 0 /\ pc = "record" /\ utterances < MaxUtterances) => (stream /\ ENABLED Yield))

C14_Witness ==
    /\ errors = 1
    /\ utterances = 2
    /\ pc = "record"
    /\ stream
    /\ intent # NoneVal
    /\ calls # <<>>
    /\ ~Blew

FailureNotices == {"handler_blew_up", "spotify_notice"}

IsFailureNotice(n) == n[1] \in FailureNotices

\* C15: every backend operation that failed for the current utterance
\* (returned False, reported or raised) has its own user-visible notice:
\* there are at least as many failure notices as failed operations.
C15_FailuresNoticed ==
    Len(failures) <= Len(SelectSeq(notices, IsFailureNotice))

\* C18: an utterance whose two transcription attempts both failed is
\* treated as "heard nothing": that notice is printed and the loop's error
\* handler does not run.
C18_FailedTwiceHeardNothing ==
    (pc = "record" /\ attempts = 2 /\ text = NoneVal) =>
        /\ ~Blew
        /\ \E i \in 1..Len(notices) : notices[i][1] = "heard_nothing"

TogglesPlayback(arg) == arg \in {s_play, s_pause, s_resume}

\* C20: in the API dispatcher a play, pause or resume whose call succeeds
\* leaves the player's playing state the negation of what it was, whichever
\* of the three was said, and after n such commands the state is the
\* starting state when n is even and its negation when n is odd.
C20_ToggleParity ==
    /\ [][ (/\ backend = "api" /\ pc = "dispatch" /\ intent[1] = "transport"
            /\ TogglesPlayback(intent[2]) /\ pc' # pc /\ failures' = failures) =>
               (playing' = ~playing /\ toggles' = toggles + 1) ]_vars
    /\ [](playing = IF toggles % 2 = 0 THEN base ELSE ~base)

C20_Witness ==
    /\ backend = "api"
    /\ pc = "record"
    /\ toggles = 2
    /\ playing = base
    /\ intent = <<"transport", s_resume>>
====
